---- MODULE Spec2Model ----
(***************************************************************************)
(* Model of the single-image inference driver                              *)
(* (tools/test_net_single_image.py: main, configure_inference,             *)
(* visualize_results) and of the robust regression loss                    *)
(* (lib/layers/reconstruction_loss.py: reconstruction_loss).               *)
(*                                                                         *)
(* Paths are records [abs, parts]; the file system is a set of directories *)
(* and a map from resolved file paths to what was written there.  Sparse   *)
(* tensors are records [C, F]: a set of coordinates <<batch, x, y, z>> and *)
(* a feature per coordinate.  Loss values are exact fractions num / den.   *)
(***************************************************************************)
EXTENDS Integers, Sequences, FiniteSets, TLC

VARIABLES
    opts,         \* parsed command line: [output, opts]
    cfg_file,     \* content of opts.config_file: partial map key -> value
    net_output,   \* what model.inference computes for this image and checkpoint
    config,       \* the global configuration object
    pc,           \* stage of main about to run, or "done" / "failed"
    failed_at,    \* stage that raised, "" if none
    log,          \* stages of main entered so far, in order
    ready,        \* objects main has prepared so far
    results,      \* the results bundle returned by model.inference
    vstep,        \* next statement of visualize_results (index into VisSteps)
    surface,      \* local of visualize_results: the dense geometry grid
    points,       \* local of visualize_results: coordinates below the iso value
    dirs,         \* directories on disk (resolved paths)
    files,        \* files on disk: resolved path -> content
    input,        \* reconstruction_loss argument
    target,       \* reconstruction_loss argument
    beta,         \* reconstruction_loss argument
    size_average, \* reconstruction_loss argument
    loss          \* outcome of the reconstruction_loss call

runVars == <<opts, cfg_file, net_output, config, pc, failed_at, log, ready,
             results, vstep, surface, points, dirs, files>>
lossVars == <<input, target, beta, size_average, loss>>
vars == <<opts, cfg_file, net_output, config, pc, failed_at, log, ready,
          results, vstep, surface, points, dirs, files,
          input, target, beta, size_average, loss>>

(***************************************************************************)
(* Bounds of the model.                                                    *)
(***************************************************************************)
MaxFileKeys == 1
MaxOpts == 1
GridX == 2
MaxLen == 2
MaxVal == 2
MaxBeta == 2

(***************************************************************************)
(* Paths (pathlib).                                                        *)
(***************************************************************************)
Rel(parts) == [abs |-> FALSE, parts |-> parts]
Abs(parts) == [abs |-> TRUE, parts |-> parts]

\* Path.__truediv__: an absolute right operand replaces the left one.
Join(p, q) == IF q.abs THEN q ELSE [abs |-> p.abs, parts |-> p.parts \o q.parts]

\* Working directory of the process.
Cwd == <<"work">>

\* Where the operating system puts a path.
Resolve(p) == IF p.abs THEN p.parts ELSE Cwd \o p.parts

Prefixes(s) == {SubSeq(s, 1, n) : n \in 0..Len(s)}

Parent(s) == SubSeq(s, 1, Len(s) - 1)

IsUnder(s, d) == Len(s) > Len(d) /\ SubSeq(s, 1, Len(d)) = d

(***************************************************************************)
(* Configuration (lib.config.config, a yacs node).                         *)
(***************************************************************************)
HardcodedKeys == {"IS_LEVEL_64", "IS_LEVEL_128", "IS_LEVEL_256", "FIX"}

ConfigKeys == {"OUTPUT_DIR", "ISO_VALUE", "TRUNCATION"} \cup HardcodedKeys

ExportKeys == {"ISO_VALUE", "TRUNCATION"}

\* In-code defaults of the keys the driver reads or writes.
Defaults ==
    [k \in ConfigKeys |->
        CASE k = "OUTPUT_DIR" -> Rel(<<"output">>)
          [] k = "ISO_VALUE" -> 2
          [] k = "TRUNCATION" -> 3
          [] k = "FIX" -> FALSE
          [] OTHER -> TRUE]

\* Values a configuration file or an override list may give a key.
ValuesOf(k) ==
    CASE k = "OUTPUT_DIR" -> {Rel(<<"cfg_out">>), Abs(<<"scratch">>)}
      [] k = "ISO_VALUE" -> {2, 3}
      [] k = "TRUNCATION" -> {1, 3}
      [] OTHER -> BOOLEAN

OutputArgs == {Rel(<<"output", "sample_0007">>), Abs(<<"results">>)}

Extend(m, k, v) == [x \in DOMAIN m \cup {k} |-> IF x = k THEN v ELSE m[x]]

RECURSIVE MapsOn(_)
MapsOn(ks) ==
    IF ks = {} THEN {<<>>}
    ELSE LET k == CHOOSE x \in ks : TRUE
         IN  {Extend(m, k, v) : m \in MapsOn(ks \ {k}), v \in ValuesOf(k)}

FileContents(keys) ==
    UNION {MapsOn(ks) : ks \in {s \in SUBSET keys : Cardinality(s) <= MaxFileKeys}}

KeyValuePairs(keys) == UNION {{<<k, v>> : v \in ValuesOf(k)} : k \in keys}

OptLists(keys) == UNION {[1..n -> KeyValuePairs(keys)] : n \in 0..MaxOpts}

\* config.merge_from_file: every key of the file replaces the value held.
MergeFromFile(c, f) == [k \in DOMAIN c |-> IF k \in DOMAIN f THEN f[k] ELSE c[k]]

\* config.merge_from_list: the pairs are assigned one after the other.
RECURSIVE MergeFromList(_, _)
MergeFromList(c, l) ==
    IF l = <<>> THEN c
    ELSE MergeFromList([c EXCEPT ![Head(l)[1]] = Head(l)[2]], Tail(l))

InferenceSettings(c) ==
    [c EXCEPT !["IS_LEVEL_64"] = FALSE, !["IS_LEVEL_128"] = FALSE,
              !["IS_LEVEL_256"] = FALSE, !["FIX"] = TRUE]

SetOutputDir(c, o) == [c EXCEPT !["OUTPUT_DIR"] = o.output]

FinalConfigSettingsFirst(c, o, f) ==
    MergeFromList(MergeFromFile(InferenceSettings(SetOutputDir(c, o)), f), o.opts)

FinalConfigListFirst(c, o, f) ==
    InferenceSettings(MergeFromFile(MergeFromList(SetOutputDir(c, o), o.opts), f))

\* configure_inference, when no merge raises.
FinalConfig(c, o, f) ==
    InferenceSettings(MergeFromList(MergeFromFile(SetOutputDir(c, o), f), o.opts))

(***************************************************************************)
(* Sparse tensors and the dense grid.                                      *)
(***************************************************************************)
\* config.MODEL.FRUSTUM3D.GRID_DIMENSIONS
GRID_DIMENSIONS == <<GridX, 1, 1>>

GridOf(dims) ==
    {<<x, y, z>> : x \in 0..(dims[1] - 1), y \in 0..(dims[2] - 1), z \in 0..(dims[3] - 1)}

min_coordinates == <<0, 0, 0>>

\* Sparse coordinates carry the batch index in their first column.
BatchCoords == {<<0>> \o c : c \in GridOf(GRID_DIMENSIONS)}

GeometryValues == {1, 2, 3}

SparseTensors(values) ==
    UNION {{[C |-> cs, F |-> f] : f \in [cs -> values]} : cs \in SUBSET BatchCoords}

EmptyTensor == [C |-> {}, F |-> <<>>]

\* Result bundles the network may return (the fields the exporter reads).
NetOutputs ==
    {[geometry |-> g, projection |-> [C |-> {<<0, 0, 0, 0>>}, F |-> <<>>]] :
        g \in SparseTensors(GeometryValues)}

NoGeometryOutputs ==
    {[geometry |-> EmptyTensor, projection |-> [C |-> {<<0, 0, 0, 0>>}, F |-> <<>>]]}

NoResults == [geometry |-> EmptyTensor, projection |-> EmptyTensor]

\* tensor.C[:, 1:]
DropBatch(cs) == {Tail(c) : c \in cs}

AtGrid(c, minc) == <<0, c[1] + minc[1], c[2] + minc[2], c[3] + minc[3]>>

\* tensor.dense(dense_dimensions, min_coordinates, default_value)
Dense(t, dims, minc, default) ==
    [c \in GridOf(dims) |->
        IF AtGrid(c, minc) \in t.C THEN t.F[AtGrid(c, minc)] ELSE default]

SurfacePointsInclusive(s, iso) == {c \in DOMAIN s : s[c] <= iso}

\* (surface < iso_value).squeeze().nonzero()
SurfacePoints(s, iso) == {c \in DOMAIN s : s[c] < iso}

(***************************************************************************)
(* main: the stages in program order.                                      *)
(***************************************************************************)
StageOrderMaskLate ==
    <<"configure_inference", "build_model", "load_checkpoint", "to_device",
      "switch_test", "load_image", "prepare_intrinsic", "inference",
      "load_frustum_mask", "visualize_results">>

StageOrder ==
    <<"configure_inference", "build_model", "load_checkpoint", "to_device",
      "switch_test", "load_image", "prepare_intrinsic", "load_frustum_mask",
      "inference", "visualize_results">>

IndexOf(s) == CHOOSE i \in 1..Len(StageOrder) : StageOrder[i] = s

NextStage(s) ==
    IF IndexOf(s) = Len(StageOrder) THEN "done" ELSE StageOrder[IndexOf(s) + 1]

PlainStages ==
    {"build_model", "load_checkpoint", "to_device", "switch_test", "load_image",
     "prepare_intrinsic", "load_frustum_mask"}

(***************************************************************************)
(* visualize_results: its statements in program order.                     *)
(***************************************************************************)
Step(line, op, writer, path, data) ==
    [line |-> line, op |-> op, writer |-> writer, path |-> path, data |-> data]

VisStepsOnePcdName ==
    << Step(82, "mkdir", "", Rel(<<>>), ""),
       Step(86, "write", "to_pointcloud", Abs(<<"depth_prediction.ply">>), "depth"),
       Step(87, "write", "write_depth", Rel(<<"depth_map.png">>), "depth"),
       Step(90, "write", "write_detection_image", Rel(<<"detection.png">>), "instance"),
       Step(93, "write", "write_pointcloud", Rel(<<"projection.ply">>), "projection"),
       Step(96, "dense", "", Rel(<<>>), ""),
       Step(107, "write", "write_pointcloud", Rel(<<"sparse_coordinates.ply">>), "geometry"),
       Step(109, "nonzero", "", Rel(<<>>), ""),
       Step(110, "write", "write_pointcloud", Rel(<<"surface_pcd.ply">>), "points"),
       Step(111, "write", "write_semantic_pointcloud", Rel(<<"surface_pcd.ply">>), "points"),
       Step(112, "write", "write_semantic_pointcloud", Rel(<<"surface_pcd.ply">>), "points"),
       Step(114, "write", "write_distance_field", Rel(<<"mesh_geometry.ply">>), "surface"),
       Step(115, "write", "write_distance_field", Rel(<<"mesh_semantics.ply">>), "semantics"),
       Step(116, "write", "write_distance_field", Rel(<<"mesh_instances.ply">>), "instances") >>

VisSteps ==
    << Step(82, "mkdir", "", Rel(<<>>), ""),
       Step(86, "write", "to_pointcloud", Abs(<<"depth_prediction.ply">>), "depth"),
       Step(87, "write", "write_depth", Rel(<<"depth_map.png">>), "depth"),
       Step(90, "write", "write_detection_image", Rel(<<"detection.png">>), "instance"),
       Step(93, "write", "write_pointcloud", Rel(<<"projection.ply">>), "projection"),
       Step(96, "dense", "", Rel(<<>>), ""),
       Step(107, "write", "write_pointcloud", Rel(<<"sparse_coordinates.ply">>), "geometry"),
       Step(109, "nonzero", "", Rel(<<>>), ""),
       Step(110, "write", "write_pointcloud", Rel(<<"points_geometry.ply">>), "points"),
       Step(111, "write", "write_semantic_pointcloud", Rel(<<"surface_pcd.ply">>), "points"),
       Step(112, "write", "write_semantic_pointcloud", Rel(<<"surface_pcd.ply">>), "points"),
       Step(114, "write", "write_distance_field", Rel(<<"mesh_geometry.ply">>), "surface"),
       Step(115, "write", "write_distance_field", Rel(<<"mesh_semantics.ply">>), "semantics"),
       Step(116, "write", "write_distance_field", Rel(<<"mesh_instances.ply">>), "instances") >>

\* output_path = Path(output_path), the argument being config.OUTPUT_DIR
output_path == config["OUTPUT_DIR"]

\* Where the statement writes.
TargetOf(st) == Resolve(Join(output_path, st.path))

\* The coordinates a point-cloud writer receives.
PointsOf(data) ==
    CASE data = "projection" -> DropBatch(results.projection.C)
      [] data = "geometry" -> DropBatch(results.geometry.C)
      [] data = "points" -> points
      [] OTHER -> {}

\* What a writer that returns leaves in its file.
ContentOf(st) ==
    [writer |-> st.writer, data |-> st.data, points |-> PointsOf(st.data),
     complete |-> TRUE]

\* What a writer that raises after opening its file leaves there.
PartialOf(st) ==
    [writer |-> st.writer, data |-> st.data, points |-> {}, complete |-> FALSE]

Put(fs, p, c) == [q \in DOMAIN fs \cup {p} |-> IF q = p THEN c ELSE fs[q]]

(***************************************************************************)
(* reconstruction_loss, in exact arithmetic: a loss value is num / den.    *)
(***************************************************************************)
\* torch.abs
AbsVal(x) == IF x < 0 THEN -x ELSE x

\* n = torch.abs(input - target)
Residual(a, b) == [i \in 1..Len(a) |-> AbsVal(a[i] - b[i])]

BelowOrAt(n, b) == n <= b

\* cond = n < beta
Below(n, b) == n < b

\* Denominator shared by both branches: 0.5 * n^2 / beta needs 2 * beta.
Scale(b) == IF b > 0 THEN b ELSE 1

\* torch.where(cond, 0.5 * n ** 2 / beta, n - 0.5 * beta), times 2 * Scale(beta)
Elementwise(n, b) == IF Below(n, b) THEN n * n ELSE (2 * n - b) * Scale(b)

RECURSIVE Sum(_)
Sum(s) == IF s = <<>> THEN 0 ELSE Head(s) + Sum(Tail(s))

\* The value reconstruction_loss returns for these arguments; the mean of a
\* tensor without elements is 0 / 0, which torch returns as nan.
LossOf(a, b, bt, avg) ==
    LET n == Residual(a, b)
        l == [i \in 1..Len(n) |-> Elementwise(n[i], bt)]
    IN  [kind |-> IF avg /\ Len(n) = 0 THEN "nan" ELSE "value",
         cond |-> [i \in 1..Len(n) |-> Below(n[i], bt)],
         elems |-> l,
         num |-> Sum(l),
         den |-> 2 * Scale(bt) * (IF avg THEN Len(n) ELSE 1)]

NotCalled == [kind |-> "none", cond |-> <<>>, elems |-> <<>>, num |-> 0, den |-> 1]

Tensors == UNION {[1..n -> 0..MaxVal] : n \in 0..MaxLen}

(***************************************************************************)
(* Initial states.                                                         *)
(***************************************************************************)
RunIdle ==
    /\ opts = [output |-> Rel(<<"output">>), opts |-> <<>>]
    /\ cfg_file = <<>>
    /\ net_output = NoResults
    /\ config = Defaults
    /\ pc = "idle"
    /\ failed_at = ""
    /\ log = <<>>
    /\ ready = {}
    /\ results = NoResults
    /\ vstep = 1
    /\ surface = <<>>
    /\ points = {}
    /\ dirs = Prefixes(Cwd)
    /\ files = <<>>

LossIdle ==
    /\ input = <<0>>
    /\ target = <<0>>
    /\ beta = 1
    /\ size_average = TRUE
    /\ loss = NotCalled

\* A run of main on a command line, a configuration file and a network whose
\* inputs may set `keys` and whose output is one of `outputs`.
InitOf(keys, outputs) ==
    /\ opts \in [output : OutputArgs, opts : OptLists(keys)]
    /\ cfg_file \in FileContents(keys)
    /\ net_output \in outputs
    /\ config = Defaults
    /\ pc = StageOrder[1]
    /\ failed_at = ""
    /\ log = <<>>
    /\ ready = {}
    /\ results = NoResults
    /\ vstep = 1
    /\ surface = <<>>
    /\ points = {}
    /\ dirs = Prefixes(Cwd)
    /\ files = <<>>
    /\ LossIdle

Init == InitOf(ExportKeys, NetOutputs)

InitConfig == InitOf(ConfigKeys, NoGeometryOutputs)

InitLoss ==
    /\ RunIdle
    /\ input \in Tensors
    /\ target \in {t \in Tensors : Len(t) = Len(input)}
    /\ beta \in (-MaxBeta)..MaxBeta
    /\ size_average \in BOOLEAN
    /\ loss = NotCalled

(***************************************************************************)
(* Actions of main.                                                        *)
(***************************************************************************)
Raise(stage) ==
    /\ pc' = "failed"
    /\ failed_at' = stage

\* configure_inference(opts) returns.
ConfigureInference ==
    /\ pc = "configure_inference"
    /\ config' = FinalConfig(config, opts, cfg_file)
    /\ log' = Append(log, pc)
    /\ ready' = ready \cup {pc}
    /\ pc' = NextStage(pc)
    /\ UNCHANGED <<opts, cfg_file, net_output, failed_at, results, vstep,
                   surface, points, dirs, files>>
    /\ UNCHANGED lossVars

\* merge_from_file or merge_from_list raises: the assignments made so far stay.
ConfigureRaises ==
    /\ pc = "configure_inference"
    /\ \/ config' = SetOutputDir(config, opts)
       \/ config' = MergeFromFile(SetOutputDir(config, opts), cfg_file)
    /\ log' = Append(log, pc)
    /\ Raise(pc)
    /\ UNCHANGED <<opts, cfg_file, net_output, ready, results, vstep,
                   surface, points, dirs, files>>
    /\ UNCHANGED lossVars

\* Lines 28-57: model construction, checkpoint, device, test mode, image,
\* intrinsic matrix, frustum mask.
PrepareStage ==
    /\ pc \in PlainStages
    /\ log' = Append(log, pc)
    /\ ready' = ready \cup {pc}
    /\ pc' = NextStage(pc)
    /\ UNCHANGED <<opts, cfg_file, net_output, config, failed_at, results, vstep,
                   surface, points, dirs, files>>
    /\ UNCHANGED lossVars

\* results = model.inference(input_image, front3d_intrinsic, front3d_frustum_mask)
Inference ==
    /\ pc = "inference"
    /\ results' = net_output
    /\ log' = Append(log, pc)
    /\ ready' = ready \cup {pc}
    /\ pc' = NextStage(pc)
    /\ UNCHANGED <<opts, cfg_file, net_output, config, failed_at, vstep,
                   surface, points, dirs, files>>
    /\ UNCHANGED lossVars

\* A stage of lines 28-61 raises; main catches nothing.
StageRaises ==
    /\ pc \in PlainStages \cup {"inference"}
    /\ log' = Append(log, pc)
    /\ Raise(pc)
    /\ UNCHANGED <<opts, cfg_file, net_output, config, ready, results, vstep,
                   surface, points, dirs, files>>
    /\ UNCHANGED lossVars

(***************************************************************************)
(* Actions of visualize_results(results, config.OUTPUT_DIR).               *)
(***************************************************************************)
InVisualize == pc = "visualize_results" /\ vstep \in 1..Len(VisSteps)

Entered == IF vstep = 1 THEN Append(log, pc) ELSE log

Advance ==
    /\ vstep' = vstep + 1
    /\ log' = Entered
    /\ IF vstep = Len(VisSteps)
       THEN pc' = NextStage(pc) /\ ready' = ready \cup {pc}
       ELSE pc' = pc /\ ready' = ready
    /\ UNCHANGED failed_at

\* output_path.mkdir(exist_ok=True, parents=True)
MakeOutputDir ==
    /\ InVisualize
    /\ VisSteps[vstep].op = "mkdir"
    /\ dirs' = dirs \cup Prefixes(Resolve(output_path))
    /\ Advance
    /\ UNCHANGED <<opts, cfg_file, net_output, config, results, surface, points, files>>
    /\ UNCHANGED lossVars

\* Lines 96-104: the dense grids.
Densify ==
    /\ InVisualize
    /\ VisSteps[vstep].op = "dense"
    /\ surface' = Dense(results.geometry, GRID_DIMENSIONS, min_coordinates,
                        config["TRUNCATION"])
    /\ Advance
    /\ UNCHANGED <<opts, cfg_file, net_output, config, results, points, dirs, files>>
    /\ UNCHANGED lossVars

\* Line 109.
ExtractPoints ==
    /\ InVisualize
    /\ VisSteps[vstep].op = "nonzero"
    /\ points' = SurfacePoints(surface, config["ISO_VALUE"])
    /\ Advance
    /\ UNCHANGED <<opts, cfg_file, net_output, config, results, surface, dirs, files>>
    /\ UNCHANGED lossVars

\* A writer creates or replaces its file and returns.
WriteFile ==
    /\ InVisualize
    /\ VisSteps[vstep].op = "write"
    /\ Parent(TargetOf(VisSteps[vstep])) \in dirs
    /\ files' = Put(files, TargetOf(VisSteps[vstep]), ContentOf(VisSteps[vstep]))
    /\ Advance
    /\ UNCHANGED <<opts, cfg_file, net_output, config, results, surface, points, dirs>>
    /\ UNCHANGED lossVars

\* A statement raises: before touching the disk, or (a writer) after it has
\* opened and truncated its file.
VisualizeRaises ==
    /\ InVisualize
    /\ \/ files' = files
       \/ /\ VisSteps[vstep].op = "write"
          /\ Parent(TargetOf(VisSteps[vstep])) \in dirs
          /\ files' = Put(files, TargetOf(VisSteps[vstep]), PartialOf(VisSteps[vstep]))
    /\ log' = Entered
    /\ Raise(pc)
    /\ UNCHANGED <<opts, cfg_file, net_output, config, ready, results, vstep,
                   surface, points, dirs>>
    /\ UNCHANGED lossVars

(***************************************************************************)
(* The call of reconstruction_loss.                                        *)
(***************************************************************************)
ReconstructionLoss ==
    /\ pc = "idle"
    /\ loss.kind = "none"
    /\ loss' = LossOf(input, target, beta, size_average)
    /\ UNCHANGED <<input, target, beta, size_average>>
    /\ UNCHANGED runVars

Next ==
    \/ ConfigureInference
    \/ ConfigureRaises
    \/ PrepareStage
    \/ Inference
    \/ StageRaises
    \/ MakeOutputDir
    \/ Densify
    \/ ExtractPoints
    \/ WriteFile
    \/ VisualizeRaises

NextLoss == ReconstructionLoss

\* A run of main with the configuration inputs that reach the exporter.
Spec == Init /\ [][Next]_vars

\* A run of main with inputs that may set every modelled configuration key.
SpecConfig == InitConfig /\ [][Next]_vars

\* One call of reconstruction_loss.
SpecLoss == InitLoss /\ [][NextLoss]_vars

(***************************************************************************)
(* Properties.                                                             *)
(***************************************************************************)
Configured == "configure_inference" \in ready

SetInList(k) == \E i \in 1..Len(opts.opts) : opts.opts[i][1] = k

LastInList(k) ==
    LET i == CHOOSE j \in 1..Len(opts.opts) :
                 /\ opts.opts[j][1] = k
                 /\ \A m \in (j + 1)..Len(opts.opts) : opts.opts[m][1] # k
    IN  opts.opts[i][2]

SetInFile(k) == k \in DOMAIN cfg_file

\* C1: once configure_inference has returned, IS_LEVEL_64, IS_LEVEL_128 and
\* IS_LEVEL_256 are False and FIX is True, whatever the file and the override
\* list give those keys, in that state and in every later state of the run.
C1_InferenceFlagsForced ==
    Configured =>
        /\ config["IS_LEVEL_64"] = FALSE
        /\ config["IS_LEVEL_128"] = FALSE
        /\ config["IS_LEVEL_256"] = FALSE
        /\ config["FIX"] = TRUE

\* C1 witness: the run has finished although the file or the list asked for
\* the opposite value of a hardcoded key.
C1_Witness ==
    /\ pc = "done"
    /\ \/ \E k \in HardcodedKeys \ {"FIX"} : SetInFile(k) /\ cfg_file[k] = TRUE
       \/ SetInList("FIX") /\ LastInList("FIX") = FALSE

C3_OutputDirIsCliOutput == Configured => config["OUTPUT_DIR"] = opts.output

NineFiles ==
    {"depth_map.png", "detection.png", "projection.ply", "sparse_coordinates.ply",
     "points_geometry.ply", "surface_pcd.ply", "mesh_geometry.ply",
     "mesh_semantics.ply", "mesh_instances.ply"}

OutputDir == Resolve(config["OUTPUT_DIR"])

InOutputDir(name) == OutputDir \o <<name>>

\* C4: when visualize_results has run to completion, the output directory
\* exists and holds all nine named files, completely written; and no file is
\* on disk before the output directory and its parents exist.
C4_AllNineWritten ==
    /\ pc = "done" =>
          /\ OutputDir \in dirs
          /\ \A n \in NineFiles :
                /\ InOutputDir(n) \in DOMAIN files
                /\ files[InOutputDir(n)].complete
    /\ DOMAIN files # {} => Prefixes(OutputDir) \subseteq dirs

\* C4 witness: a finished export into a directory whose parent did not exist.
C4_Witness ==
    /\ pc = "done"
    /\ Len(OutputDir) > Len(Cwd) + 1

\* C5: every file on disk written by visualize_results lies inside the output
\* directory.
C5_WritesInsideOutputDir == \A p \in DOMAIN files : IsUnder(p, OutputDir)

\* C6: a failing export step raises out of visualize_results, nothing runs
\* after the failure, and no step changes or removes a file that an earlier
\* step has written.
C6_EarlierFilesIntact ==
    [][/\ pc # "failed"
       /\ pc = "visualize_results" =>
             \A p \in DOMAIN files : p \in DOMAIN files' /\ files'[p] = files[p]]_vars

HasEntry(c) == (<<0>> \o c) \in net_output.geometry.C

EntryOf(c) == net_output.geometry.F[<<0>> \o c]

BelowIso(c) ==
    IF HasEntry(c) THEN EntryOf(c) < config["ISO_VALUE"]
    ELSE config["TRUNCATION"] < config["ISO_VALUE"]

\* C7: the points written to points_geometry.ply and surface_pcd.ply are
\* exactly the grid coordinates whose geometry value is strictly below
\* ISO_VALUE, a voxel without a sparse entry counting with value TRUNCATION.
C7_SurfacePointsStrictlyBelowIso ==
    \A n \in {"points_geometry.ply", "surface_pcd.ply"} :
        (InOutputDir(n) \in DOMAIN files /\ files[InOutputDir(n)].complete) =>
            files[InOutputDir(n)].points =
                {c \in GridOf(GRID_DIMENSIONS) : BelowIso(c)}

\* C7 witness: both files are written for a grid holding a voxel at exactly
\* ISO_VALUE and a voxel without entry while TRUNCATION < ISO_VALUE.
C7_Witness ==
    /\ InOutputDir("points_geometry.ply") \in DOMAIN files
    /\ InOutputDir("surface_pcd.ply") \in DOMAIN files
    /\ files[InOutputDir("surface_pcd.ply")].complete
    /\ config["TRUNCATION"] < config["ISO_VALUE"]
    /\ \E c \in GridOf(GRID_DIMENSIONS) : ~HasEntry(c)
    /\ \E c \in GridOf(GRID_DIMENSIONS) :
          HasEntry(c) /\ EntryOf(c) = config["ISO_VALUE"]

\* C8: a call with beta <= 0 ends in an InvalidArgument error and yields no
\* loss value.
C8_NonPositiveBetaRejected ==
    (loss.kind # "none" /\ beta <= 0) => loss.kind = "InvalidArgument"

ExpectedOrder ==
    <<"configure_inference", "build_model", "load_checkpoint", "to_device",
      "switch_test", "load_image", "prepare_intrinsic", "load_frustum_mask",
      "inference", "visualize_results">>

\* C10: the stages of main are entered in one fixed order, each at most once;
\* the model is built only after configuration, the forward pass is entered
\* only after device placement, test mode, image, intrinsic and mask, the
\* export only after the forward pass has returned; after a failure no step
\* is taken.
C10_StagesInOrderNoRetry ==
    /\ [](/\ Len(log) <= Len(ExpectedOrder)
          /\ log = SubSeq(ExpectedOrder, 1, Len(log))
          /\ \A i \in 1..Len(log) :
                \A j \in 1..(i - 1) : ExpectedOrder[j] \in ready
          /\ ("build_model" \in ready \/ "load_checkpoint" \in ready) => Configured
          /\ (\E i \in 1..Len(log) : log[i] = "inference") =>
                {"to_device", "switch_test", "load_image", "prepare_intrinsic",
                 "load_frustum_mask"} \subseteq ready
          /\ (\E i \in 1..Len(log) : log[i] = "visualize_results") =>
                "inference" \in ready /\ results = net_output)
    /\ [][pc # "failed" /\ pc # "done"]_vars

\* C10 witness: a run that went through all ten stages.
C10_Witness == pc = "done" /\ Len(log) = Len(ExpectedOrder)

====
